---- MODULE Spec2Model ----
(***************************************************************************)
(* Finite-automaton toolkit: the NFA with lambda (empty-string)            *)
(* transitions of src/02.py (and its commented twin src/1_02ab.py) and the *)
(* AFD of src/1_01ab.py.                                                   *)
(*                                                                         *)
(* Spec          one automaton object is constructed (NFA() or AFD(...)),  *)
(*               then its methods are called; every call is one action.    *)
(* SpecClosure   one NFA whose table was filled by add_transition calls;   *)
(*               _get_lambda_closure runs statement by statement, the      *)
(*               order of list(states) and of the iteration over a         *)
(*               destination set being free.                               *)
(* FairClosure   SpecClosure with the loop of a running call always        *)
(*               taking its next step.                                     *)
(***************************************************************************)
EXTENDS Integers, Sequences, FiniteSets, TLC

VARIABLES
    obj,            \* which object exists: "none", "NFA" or "AFD"
    \* ---- class NFA (src/02.py:4-8)
    states, alphabet, transitions, start_state, accept_states,
    \* ---- class AFD (src/1_01ab.py:7-11)
    estados, alfabeto, transicoes, estado_inicial, estados_finais,
    \* ---- the last method call on the object and what it returned
    call, ret,
    \* ---- locals of process_string / simular when the call returned
    current_states, estado_atual, consumed,
    \* ---- locals of a running _get_lambda_closure call
    cpc, arg, closure, stack, current_state, iter, pushes, prev,
    \* ---- evaluations run statement by statement by several callers: where
    \* ---- each call stands, and the local variables of each call
    evals, frames,
    \* ---- class PDA (src/2abc.py:20-32): the fields of the object
    pda

nfaVars == <<states, alphabet, transitions, start_state, accept_states>>
afdVars == <<estados, alfabeto, transicoes, estado_inicial, estados_finais>>
callVars == <<call, ret, current_states, estado_atual, consumed>>
closureVars == <<cpc, arg, closure, stack, current_state, iter, pushes, prev>>
stepVars == <<evals, frames>>
pdaVars == <<pda>>
vars == <<obj, nfaVars, afdVars, callVars, closureVars, stepVars, pdaVars>>

----------------------------------------------------------------------------
(* Bounds of the model: the values the methods are called with.            *)

States == {"q0", "q1", "q2"}
Symbols == {"a", "b"}
\* the largest number of (from, symbol, to) triples add_transition stores
MaxTrans == 2
\* the longest input sequence given to process_string / simular
MaxLen == 2
\* the states and the largest table an AFD is constructed with
AFDStates == {"q0", "q1"}
MaxAFDTrans == 2

\* input_symbol = '' marks a lambda transition (src/02.py:23)
Eps == ""
\* Python's None: start_state before set_start_state, dict.get on a missing key
None == "None"

Labels == Symbols \cup {Eps}
\* the states set_start_state is called with
StartArgs == {"q0", "q1"}
\* the states add_accept_state is called with
AcceptArgs == {"q0", "q2"}
Triples == States \X Labels \X States

RECURSIVE SeqsUpTo(_, _)
SeqsUpTo(S, n) ==
    IF n = 0 THEN {<<>>}
    ELSE LET shorter == SeqsUpTo(S, n - 1)
         IN  shorter \cup {Append(w, x) : w \in {v \in shorter : Len(v) = n - 1}, x \in S}

\* the subsets of S with at most n members
RECURSIVE SubsetsUpTo(_, _)
SubsetsUpTo(S, n) ==
    IF n = 0 THEN {{}}
    ELSE LET smaller == SubsetsUpTo(S, n - 1)
         IN  smaller \cup {X \cup {x} : X \in smaller, x \in S}

\* the sequences process_string and simular are called with
Inputs == SeqsUpTo(Symbols, MaxLen)

\* every order in which Python may enumerate the members of a set
Orders(S) ==
    {f \in [1..Cardinality(S) -> S] : \A i, j \in 1..Cardinality(S) : f[i] = f[j] => i = j}

NoCall == [op |-> "none", args |-> <<>>]

\* the callers that evaluate the same automaton at the same time
Threads == {"t1", "t2"}

\* a caller that has not called yet
NoEval == [pc |-> "idle", w |-> <<>>, caller |-> 0, result |-> None]

\* the local variables of a call before any is assigned
NoFrame ==
    [i |-> 0, symbol |-> None, current_states |-> {}, next_states |-> {},
     pending |-> {}, states |-> {}, closure |-> {}, stack |-> <<>>,
     current_state |-> None, iter |-> {}, estado_atual |-> None]

\* build, then evaluate: the automaton is constructed first and a call of
\* process_string (or simular) is the last call made on it
Building(kind) == obj = kind /\ call.op \notin {"process_string", "simular"}

----------------------------------------------------------------------------
(* class NFA: the mutators                                                 *)

\* self.transitions = {}
EmptyTable == [k \in {} |-> {}]

\* the destinations stored under key, none when the key is absent
Lookup(tr, key) == IF key \in DOMAIN tr THEN tr[key] ELSE {}

\* number of (from, symbol, to) triples a table holds
RECURSIVE SumSizes(_, _)
SumSizes(tr, keys) ==
    IF keys = {} THEN 0
    ELSE LET k == CHOOSE x \in keys : TRUE
         IN  Cardinality(tr[k]) + SumSizes(tr, keys \ {k})
TableSize(tr) == SumSizes(tr, DOMAIN tr)

\* if key not in self.transitions: self.transitions[key] = set()
EnsureKey(tr, key) ==
    IF key \notin DOMAIN tr
    THEN [k \in DOMAIN tr \cup {key} |-> IF k = key THEN {} ELSE tr[k]]
    ELSE tr

\* faulty variant: a destination already stored is taken out again (^= for |=)
AddDest_Toggle(tr, key, to_state) ==
    [tr EXCEPT ![key] = IF to_state \in @ THEN @ \ {to_state} ELSE @ \cup {to_state}]

\* self.transitions[key].add(to_state)
AddDest(tr, key, to_state) ==
    [tr EXCEPT ![key] = @ \cup {to_state}]

\* faulty variant: the key of the destination is created as well, empty
PutTransition_Touch(tr, from_state, input_symbol, to_state) ==
    LET key == <<from_state, input_symbol>>
    IN  EnsureKey(AddDest(EnsureKey(tr, key), key, to_state), <<to_state, input_symbol>>)

\* the table after add_transition(from_state, input_symbol, to_state)
PutTransition(tr, from_state, input_symbol, to_state) ==
    LET key == <<from_state, input_symbol>>
    IN  AddDest(EnsureKey(tr, key), key, to_state)

\* if input_symbol != '': self.alphabet.add(input_symbol)
PutSymbol(alph, input_symbol) ==
    IF input_symbol # Eps THEN alph \cup {input_symbol} ELSE alph

\* the fields of the NFA object
Self ==
    [states |-> states, alphabet |-> alphabet, transitions |-> transitions,
     start_state |-> start_state, accept_states |-> accept_states]

\* NFA.__init__
NewNFA ==
    [states |-> {}, alphabet |-> {}, transitions |-> EmptyTable,
     start_state |-> None, accept_states |-> {}]

\* faulty variant: the former start state is taken out of states
SetStartState_Move(n, state) ==
    [n EXCEPT !.start_state = state, !.states = (@ \ {n.start_state}) \cup {state}]

\* the object after set_start_state(state)
SetStartState(n, state) ==
    [n EXCEPT !.start_state = state, !.states = @ \cup {state}]

\* the object after add_accept_state(state)
AddAcceptState(n, state) ==
    [n EXCEPT !.accept_states = @ \cup {state}, !.states = @ \cup {state}]

\* faulty variant: to_state is not registered in states
AddTransition_NoDest(n, from_state, input_symbol, to_state) ==
    [n EXCEPT !.states = @ \cup {from_state},
              !.alphabet = PutSymbol(@, input_symbol),
              !.transitions = PutTransition(@, from_state, input_symbol, to_state)]

\* the object after add_transition(from_state, input_symbol, to_state)
AddTransition(n, from_state, input_symbol, to_state) ==
    [n EXCEPT !.states = (@ \cup {from_state}) \cup {to_state},
              !.alphabet = PutSymbol(@, input_symbol),
              !.transitions = PutTransition(@, from_state, input_symbol, to_state)]

\* the fields of the NFA object become those of n
Becomes(n) ==
    /\ states' = n.states
    /\ alphabet' = n.alphabet
    /\ transitions' = n.transitions
    /\ start_state' = n.start_state
    /\ accept_states' = n.accept_states

NFA_init ==
    /\ obj = "none"
    /\ obj' = "NFA"
    /\ Becomes(NewNFA)
    /\ UNCHANGED <<pdaVars, afdVars, callVars, closureVars, stepVars>>

set_start_state(state) ==
    /\ Building("NFA")
    /\ Becomes(SetStartState(Self, state))
    /\ UNCHANGED <<pdaVars, obj, afdVars, callVars, closureVars, stepVars>>

add_accept_state(state) ==
    /\ Building("NFA")
    /\ Becomes(AddAcceptState(Self, state))
    /\ UNCHANGED <<pdaVars, obj, afdVars, callVars, closureVars, stepVars>>

add_transition(from_state, input_symbol, to_state) ==
    /\ Building("NFA")
    /\ \/ to_state \in Lookup(transitions, <<from_state, input_symbol>>)
       \/ TableSize(transitions) < MaxTrans
    /\ Becomes(AddTransition(Self, from_state, input_symbol, to_state))
    /\ UNCHANGED <<pdaVars, obj, afdVars, callVars, closureVars, stepVars>>

----------------------------------------------------------------------------
(* NFA._get_lambda_closure and NFA.process_string as functions of the      *)
(* automaton                                                               *)

\* one fixed enumeration order of a set
RECURSIVE SetToSeq(_)
SetToSeq(S) ==
    IF S = {} THEN <<>>
    ELSE LET x == CHOOSE y \in S : TRUE IN <<x>> \o SetToSeq(S \ {x})

\* faulty variant: the transitions of every label are followed, not only ''
LambdaDests_AnyLabel(tr, state) ==
    UNION {Lookup(tr, <<state, y>>) : y \in Labels}

\* if (current_state, '') in self.transitions: for next_state in self.transitions[...]
LambdaDests(tr, state) == Lookup(tr, <<state, Eps>>)

\* faulty variant: the "not in closure" test is missing
Unvisited_Always(next_state, clos) == TRUE

\* if next_state not in closure
Unvisited(next_state, clos) == next_state \notin clos

\* faulty variant: only the first enumerated state is put on the work list
Seed_First(order) == IF order = <<>> THEN <<>> ELSE <<order[1]>>

\* stack = list(states), in the order Python enumerates the set
Seed(order) == order

\* faulty variant: a newly found state is not put on the work list
Push_Forget(stk, next_state) == stk

\* stack.append(next_state)
Push(stk, next_state) == Append(stk, next_state)

\* while stack:
LoopEnds(stk) == stk = <<>>

\* for next_state in ...: if next_state not in closure: add it and push it
RECURSIVE ForLoop(_, _, _)
ForLoop(clos, stk, todo) ==
    IF todo = <<>> THEN [closure |-> clos, stack |-> stk]
    ELSE IF Unvisited(Head(todo), clos)
         THEN ForLoop(clos \cup {Head(todo)}, Push(stk, Head(todo)), Tail(todo))
         ELSE ForLoop(clos, stk, Tail(todo))

\* while stack: current_state = stack.pop(); the for loop
RECURSIVE WhileLoop(_, _, _)
WhileLoop(tr, clos, stk) ==
    IF LoopEnds(stk) THEN clos
    ELSE LET cur == stk[Len(stk)]
             rest == SubSeq(stk, 1, Len(stk) - 1)
             body == ForLoop(clos, rest, SetToSeq(LambdaDests(tr, cur)))
         IN  WhileLoop(tr, body.closure, body.stack)

\* closure = set(states); stack = list(states); the loop; return closure
GetLambdaClosure(tr, S) == WhileLoop(tr, S, Seed(SetToSeq(S)))

\* for state in current_states: if (state, symbol) in self.transitions: add all
NextStates(tr, cur, symbol) ==
    UNION {Lookup(tr, <<state, symbol>>) : state \in cur}

\* faulty variant: no lambda closure after a symbol is consumed
AfterSymbol_NoClosure(tr, cur, symbol) == NextStates(tr, cur, symbol)

\* next_states is filled, then current_states = self._get_lambda_closure(next_states)
AfterSymbol(tr, cur, symbol) == GetLambdaClosure(tr, NextStates(tr, cur, symbol))

\* faulty variant: the loop is left while one state is still active
Dead_AtMostOne(cur) == Cardinality(cur) <= 1

\* if not current_states: break
Dead(cur) == cur = {}

\* the for loop over input_string from its i-th element, with the break;
\* yields the active set and the number of elements consumed
RECURSIVE SymbolLoop(_, _, _, _)
SymbolLoop(tr, cur, w, i) ==
    IF i > Len(w) THEN [active |-> cur, used |-> i - 1]
    ELSE LET nxt == AfterSymbol(tr, cur, w[i])
         IN  IF Dead(nxt) THEN [active |-> nxt, used |-> i]
             ELSE SymbolLoop(tr, nxt, w, i + 1)

\* faulty variant: the run starts in the bare start state
InitialStates_NoClosure(tr, start) == {start}

\* current_states = self._get_lambda_closure({self.start_state})
InitialStates(tr, start) == GetLambdaClosure(tr, {start})

\* the locals of process_string when it returns, start_state being set
RunNFA(tr, start, w) == SymbolLoop(tr, InitialStates(tr, start), w, 1)

\* faulty variant: every active state has to be accepting
Accepting_Subset(cur, acc) == cur \subseteq acc

\* return bool(current_states & self.accept_states)
Accepting(cur, acc) == (cur \cap acc) # {}

\* faulty variant: the test for a missing start state is not made
NoStart_Unchecked(start) == FALSE

\* if self.start_state is None: return False
NoStart(start) == start = None

process_string(input_string) ==
    /\ Building("NFA")
    /\ call' = [op |-> "process_string", args |-> <<input_string>>]
    /\ IF NoStart(start_state)
       THEN /\ ret' = FALSE
            /\ current_states' = {}
            /\ consumed' = 0
       ELSE LET run == RunNFA(transitions, start_state, input_string)
            IN  /\ ret' = Accepting(run.active, accept_states)
                /\ current_states' = run.active
                /\ consumed' = run.used
    /\ UNCHANGED <<pdaVars, obj, nfaVars, afdVars, estado_atual, closureVars, stepVars>>

----------------------------------------------------------------------------
(* class AFD (src/1_01ab.py)                                               *)

AFDKeys == AFDStates \X Symbols

\* the dictionaries given as transicoes: at most MaxAFDTrans entries
AFDTables ==
    UNION {[D -> AFDStates] : D \in SubsetsUpTo(AFDKeys, MaxAFDTrans)}

\* the collections given as estados
AFDEstados == {AFDStates, {"q0"}}

\* AFD.__init__: the arguments are stored as given
AFD_init ==
    /\ obj = "none"
    /\ obj' = "AFD"
    /\ estados' \in AFDEstados
    /\ alfabeto' \in SUBSET Symbols
    /\ transicoes' \in AFDTables
    /\ estado_inicial' \in AFDStates \cup {None}
    /\ estados_finais' \in SUBSET AFDStates
    /\ UNCHANGED <<pdaVars, nfaVars, callVars, closureVars, stepVars>>

\* the largest table of an AFD constructed with arguments of any kind
MaxAnyTrans == 1

\* any value can be given as a state or as a symbol: None and '' among them
AnyKeys == (AFDStates \cup {None}) \X Labels
AnyTables == UNION {[D -> AFDStates] : D \in SubsetsUpTo(AnyKeys, MaxAnyTrans)}

\* AFD.__init__ called with arguments of any kind: they are stored as given
AFD_init_any ==
    /\ obj = "none"
    /\ obj' = "AFD"
    /\ estados' \in AFDEstados
    /\ alfabeto' \in SUBSET Labels
    /\ transicoes' \in AnyTables
    /\ estado_inicial' \in AFDStates \cup {None}
    /\ estados_finais' \in SUBSET (AFDStates \cup {None})
    /\ UNCHANGED <<pdaVars, nfaVars, callVars, closureVars, stepVars>>

\* faulty variant: the state the transition leaves from is returned
Get_Source(trs, key) == IF key \in DOMAIN trs THEN key[1] ELSE None

\* self.transicoes.get((estado_atual, simbolo))
Get(trs, key) == IF key \in DOMAIN trs THEN trs[key] ELSE None

\* faulty variant: the alphabet is not consulted
Foreign_Never(alf, simbolo) == FALSE

\* if simbolo not in self.alfabeto: return False
Foreign(alf, simbolo) == simbolo \notin alf

\* the for loop of simular from the i-th element of cadeia; yields the state
\* held when the loop ends, whether it ended by a return False, and the
\* number of elements consumed
RECURSIVE SimularLoop(_, _, _, _, _)
SimularLoop(alf, trs, atual, cadeia, i) ==
    IF i > Len(cadeia) THEN [estado |-> atual, rejected |-> FALSE, used |-> i - 1]
    ELSE IF Foreign(alf, cadeia[i])
         THEN [estado |-> atual, rejected |-> TRUE, used |-> i]
         ELSE LET nxt == Get(trs, <<atual, cadeia[i]>>)
              IN  IF nxt = None
                  THEN [estado |-> nxt, rejected |-> TRUE, used |-> i]
                  ELSE SimularLoop(alf, trs, nxt, cadeia, i + 1)

\* faulty variant: every walk that does not get stuck is accepted
IsFinal_Unstuck(atual, finais) == atual # None

\* if estado_atual in self.estados_finais: return True; else: return False
IsFinal(atual, finais) == atual \in finais

simular(cadeia) ==
    /\ Building("AFD")
    /\ call' = [op |-> "simular", args |-> <<cadeia>>]
    /\ LET run == SimularLoop(alfabeto, transicoes, estado_inicial, cadeia, 1)
       IN  /\ ret' = IF run.rejected THEN FALSE ELSE IsFinal(run.estado, estados_finais)
           /\ estado_atual' = run.estado
           /\ consumed' = run.used
    /\ UNCHANGED <<pdaVars, obj, nfaVars, afdVars, current_states, closureVars, stepVars>>

----------------------------------------------------------------------------
(* class PDA (src/2abc.py): the structure only, no evaluation              *)

\* the values the PDA methods are called with
PDAStates == {"q0", "q1"}
PDAInputs == {"0", Eps}
StackSymbols == {"Z", "0"}
StartSymbols == {"Z"}
PushStrings == {"", "0Z"}
\* the largest number of (key, pair) entries add_transition stores
MaxPDATrans == 2

\* the arguments of PDA.add_transition
Rules == PDAStates \X PDAInputs \X StackSymbols \X PDAStates \X PushStrings

\* PDA.__init__
NewPDA ==
    [states |-> {}, input_alphabet |-> {}, stack_alphabet |-> {},
     transitions |-> EmptyTable, start_state |-> None, start_symbol |-> None,
     final_states |-> {}]

\* faulty variant: the test for '' is missing
PutInput_Always(alph, input_sym) == alph \cup {input_sym}

\* if input_sym != '': self.input_alphabet.add(input_sym)
PutInput(alph, input_sym) ==
    IF input_sym # Eps THEN alph \cup {input_sym} ELSE alph

\* if key not in self.transitions: self.transitions[key] = set();
\* self.transitions[key].add((to_state, push_symbols))
PutPair(tr, key, pair) ==
    LET t == IF key \notin DOMAIN tr
             THEN [k \in DOMAIN tr \cup {key} |-> IF k = key THEN {} ELSE tr[k]]
             ELSE tr
    IN  [t EXCEPT ![key] = @ \cup {pair}]

\* the object after add_transition(from_state, input_sym, stack_top, to_state,
\* push_symbols)
PDAAddTransition(p, from_state, input_sym, stack_top, to_state, push_symbols) ==
    [p EXCEPT !.states = @ \cup {from_state, to_state},
              !.input_alphabet = PutInput(@, input_sym),
              !.stack_alphabet = @ \cup {stack_top},
              !.transitions = PutPair(@, <<from_state, input_sym, stack_top>>,
                                      <<to_state, push_symbols>>)]

\* the object after set_start(state, symbol)
PDASetStart(p, state, symbol) ==
    [p EXCEPT !.start_state = state, !.start_symbol = symbol,
              !.states = @ \cup {state}, !.stack_alphabet = @ \cup {symbol}]

\* the object after add_final_state(state)
PDAAddFinalState(p, state) ==
    [p EXCEPT !.final_states = @ \cup {state}, !.states = @ \cup {state}]

PDA_init ==
    /\ obj = "none"
    /\ obj' = "PDA"
    /\ pda' = NewPDA
    /\ UNCHANGED <<nfaVars, afdVars, callVars, closureVars, stepVars>>

PDA_set_start(state, symbol) ==
    /\ obj = "PDA"
    /\ pda' = PDASetStart(pda, state, symbol)
    /\ UNCHANGED <<obj, nfaVars, afdVars, callVars, closureVars, stepVars>>

PDA_add_final_state(state) ==
    /\ obj = "PDA"
    /\ pda' = PDAAddFinalState(pda, state)
    /\ UNCHANGED <<obj, nfaVars, afdVars, callVars, closureVars, stepVars>>

PDA_add_transition(from_state, input_sym, stack_top, to_state, push_symbols) ==
    /\ obj = "PDA"
    /\ \/ <<to_state, push_symbols>>
             \in Lookup(pda.transitions, <<from_state, input_sym, stack_top>>)
       \/ TableSize(pda.transitions) < MaxPDATrans
    /\ pda' = PDAAddTransition(pda, from_state, input_sym, stack_top, to_state,
                               push_symbols)
    /\ UNCHANGED <<obj, nfaVars, afdVars, callVars, closureVars, stepVars>>

----------------------------------------------------------------------------
Init ==
    /\ obj = "none"
    /\ states = {}
    /\ alphabet = {}
    /\ transitions = EmptyTable
    /\ start_state = None
    /\ accept_states = {}
    /\ estados = {}
    /\ alfabeto = {}
    /\ transicoes = EmptyTable
    /\ estado_inicial = None
    /\ estados_finais = {}
    /\ call = NoCall
    /\ ret = None
    /\ current_states = {}
    /\ estado_atual = None
    /\ consumed = 0
    /\ cpc = "idle"
    /\ arg = {}
    /\ closure = {}
    /\ stack = <<>>
    /\ current_state = None
    /\ iter = {}
    /\ pushes = [s \in States |-> 0]
    /\ prev = <<>>
    /\ evals = [t \in Threads |-> NoEval]
    /\ frames = [t \in Threads |-> NoFrame]
    /\ pda = NewPDA

Next ==
    \/ NFA_init
    \/ \E s \in StartArgs : set_start_state(s)
    \/ \E s \in AcceptArgs : add_accept_state(s)
    \/ \E t \in Triples : add_transition(t[1], t[2], t[3])
    \/ \E w \in Inputs : process_string(w)
    \/ AFD_init
    \/ \E w \in Inputs : simular(w)

Spec == Init /\ [][Next]_vars

\* process_string takes any sequence: its elements can be any value, the
\* empty string '' among them (a list of strings, not only a str)
AnyInputs == SeqsUpTo(Labels, MaxLen)

\* an NFA is built, then evaluated on a sequence of elements of any kind
NextSeq ==
    \/ NFA_init
    \/ \E s \in StartArgs : set_start_state(s)
    \/ \E s \in AcceptArgs : add_accept_state(s)
    \/ \E t \in Triples : add_transition(t[1], t[2], t[3])
    \/ \E w \in AnyInputs : process_string(w)

SpecSeq == Init /\ [][NextSeq]_vars

\* a PDA is constructed and its structure is built
NextPDA ==
    \/ PDA_init
    \/ \E q \in PDAStates : \E z \in StartSymbols : PDA_set_start(q, z)
    \/ \E q \in PDAStates : PDA_add_final_state(q)
    \/ \E r \in Rules : PDA_add_transition(r[1], r[2], r[3], r[4], r[5])

SpecPDA == Init /\ [][NextPDA]_vars

\* an AFD constructed with arguments of any kind, then evaluated
NextAFD ==
    \/ AFD_init_any
    \/ \E w \in Inputs : simular(w)

SpecAFD == Init /\ [][NextAFD]_vars

----------------------------------------------------------------------------
(* NFA._get_lambda_closure statement by statement (src/02.py:36-54)        *)

\* the transitions the automaton of SpecClosure is built from
\* the transitions the automaton of SpecClosure is built from: lambda
\* transitions and transitions on one symbol
ClosureTriples == States \X {Eps, "a"} \X States

\* the NFA after add_transition was called with every triple of T
RECURSIVE BuiltFrom(_)
BuiltFrom(T) ==
    IF T = {} THEN NewNFA
    ELSE LET t == CHOOSE x \in T : TRUE
         IN  AddTransition(BuiltFrom(T \ {t}), t[1], t[2], t[3])

\* a ghost: how often a state was put on the work list (0, 1, more than once)
Pushed(count) == IF count < 2 THEN count + 1 ELSE count

\* the sets the closure is asked for a second time: the same argument
\* again, or the set the first call returned
SecondArgs == {arg, closure}

\* _get_lambda_closure(S): closure = set(states); stack = list(states)
closure_call(S, order) ==
    /\ obj = "NFA"
    /\ \/ cpc = "idle" /\ prev' = <<>>
       \/ /\ cpc = "done"
          /\ prev = <<>>
          /\ S \in SecondArgs
          /\ prev' = <<[arg |-> arg, result |-> closure]>>
    /\ arg' = S
    /\ closure' = S
    /\ stack' = Seed(order)
    /\ pushes' = [s \in States |-> IF s \in S THEN 1 ELSE 0]
    /\ current_state' = None
    /\ iter' = {}
    /\ cpc' = "while"
    /\ UNCHANGED <<pdaVars, obj, nfaVars, afdVars, callVars, stepVars>>

\* while stack: current_state = stack.pop(); the for loop starts
closure_pop ==
    /\ cpc = "while"
    /\ ~LoopEnds(stack)
    /\ current_state' = stack[Len(stack)]
    /\ stack' = SubSeq(stack, 1, Len(stack) - 1)
    /\ iter' = LambdaDests(transitions, stack[Len(stack)])
    /\ cpc' = "for"
    /\ UNCHANGED <<pdaVars, obj, nfaVars, afdVars, callVars, stepVars, arg, closure, pushes, prev>>

\* one pass of "for next_state in self.transitions[(current_state, '')]"
closure_for(next_state) ==
    /\ cpc = "for"
    /\ next_state \in iter
    /\ iter' = iter \ {next_state}
    /\ IF Unvisited(next_state, closure)
       THEN /\ closure' = closure \cup {next_state}
            /\ stack' = Push(stack, next_state)
            /\ pushes' = [pushes EXCEPT ![next_state] = Pushed(@)]
       ELSE UNCHANGED <<closure, stack, pushes>>
    /\ UNCHANGED <<pdaVars, obj, nfaVars, afdVars, callVars, stepVars, cpc, arg, current_state, prev>>

\* the for loop is exhausted: back to the while test
closure_for_end ==
    /\ cpc = "for"
    /\ iter = {}
    /\ cpc' = "while"
    /\ UNCHANGED <<pdaVars, obj, nfaVars, afdVars, callVars, stepVars, arg, closure, stack,
                   current_state, iter, pushes, prev>>

\* the stack is empty: return closure
closure_return ==
    /\ cpc = "while"
    /\ LoopEnds(stack)
    /\ cpc' = "done"
    /\ UNCHANGED <<pdaVars, obj, nfaVars, afdVars, callVars, stepVars, arg, closure, stack,
                   current_state, iter, pushes, prev>>

InitClosure ==
    /\ obj = "NFA"
    /\ \E T \in SubsetsUpTo(ClosureTriples, MaxTrans) :
          /\ states = BuiltFrom(T).states
          /\ alphabet = BuiltFrom(T).alphabet
          /\ transitions = BuiltFrom(T).transitions
    /\ start_state = None
    /\ accept_states = {}
    /\ estados = {}
    /\ alfabeto = {}
    /\ transicoes = EmptyTable
    /\ estado_inicial = None
    /\ estados_finais = {}
    /\ call = NoCall
    /\ ret = None
    /\ current_states = {}
    /\ estado_atual = None
    /\ consumed = 0
    /\ cpc = "idle"
    /\ arg = {}
    /\ closure = {}
    /\ stack = <<>>
    /\ current_state = None
    /\ iter = {}
    /\ pushes = [s \in States |-> 0]
    /\ prev = <<>>
    /\ evals = [t \in Threads |-> NoEval]
    /\ frames = [t \in Threads |-> NoFrame]
    /\ pda = NewPDA

ClosureStep ==
    \/ closure_pop
    \/ \E n \in States : closure_for(n)
    \/ closure_for_end
    \/ closure_return

NextClosure ==
    \/ \E S \in SUBSET States : \E order \in Orders(S) : closure_call(S, order)
    \/ ClosureStep

SpecClosure == InitClosure /\ [][NextClosure]_vars

\* a call that has started keeps executing its statements
FairClosure == SpecClosure /\ WF_vars(ClosureStep)

----------------------------------------------------------------------------
(* The scripts of the source: an example automaton is built and from then  *)
(* on only evaluated (src/02.py:92-131, src/1_01ab.py:50-82).  Here the    *)
(* evaluations are run statement by statement, by callers whose steps      *)
(* interleave.                                                             *)

\* nfa_teste_interativo, built by the calls of src/02.py:92-106
ExampleNFA ==
    LET n1 == SetStartState(NewNFA, "start")
        n2 == AddAcceptState(n1, "final")
        n3 == AddTransition(n2, "start", Eps, "path_a1")
        n4 == AddTransition(n3, "start", Eps, "path_b1")
        n5 == AddTransition(n4, "path_a1", "a", "path_a2")
        n6 == AddTransition(n5, "path_a2", "a", "final")
        n7 == AddTransition(n6, "path_b1", "b", "path_b2")
    IN  AddTransition(n7, "path_b2", "b", "final")

\* meu_afd, the arguments of src/1_01ab.py:51-63
ExampleAFD ==
    [estados |-> {"q0", "q1"},
     alfabeto |-> {"0", "1"},
     transicoes |-> (<<"q0", "0">> :> "q0") @@ (<<"q0", "1">> :> "q1")
                    @@ (<<"q1", "0">> :> "q0") @@ (<<"q1", "1">> :> "q1"),
     estado_inicial |-> "q0",
     estados_finais |-> {"q1"}]

\* the longest sequence typed in for meu_afd
MaxCadeia == 3

\* the sequences simular is called with in the script
AFDInputs == SeqsUpTo(ExampleAFD.alfabeto, MaxCadeia)

\* faulty variant: the local variables are kept in one place for all callers
Frame_Shared(t) == CHOOSE u \in Threads : TRUE

\* the local variables of a call live in the frame of that call
Frame(t) == t

\* the local variables of the call made by t
Locals(t) == frames[Frame(t)]

\* faulty variant: closure is the passed set itself, not a copy of it
Passed_Alias(passed, next_state) == passed \cup {next_state}

\* closure = set(states) is a copy: closure.add leaves the passed set alone
Passed(passed, next_state) == passed

\* the frame of _get_lambda_closure(S): closure = set(states); stack = list(states)
CallClosure(f, S, order) ==
    [f EXCEPT !.states = S, !.closure = S, !.stack = Seed(order),
              !.current_state = None, !.iter = {}]

\* t goes to pc, its locals become f
Goes(t, pc, f) ==
    /\ evals' = [evals EXCEPT ![t].pc = pc]
    /\ frames' = [frames EXCEPT ![Frame(t)] = f]

\* process_string(w) is called: the test of start_state, then the call of
\* _get_lambda_closure({self.start_state})
run_process_string(t, w) ==
    /\ obj = "NFA"
    /\ evals[t].pc = "idle"
    /\ IF NoStart(start_state)
       THEN /\ evals' = [evals EXCEPT ![t] = [pc |-> "done", w |-> w, caller |-> 0,
                                              result |-> FALSE]]
            /\ UNCHANGED frames
       ELSE \E order \in Orders({start_state}) :
               /\ evals' = [evals EXCEPT ![t] = [pc |-> "while", w |-> w, caller |-> 64,
                                                 result |-> None]]
               /\ frames' = [frames EXCEPT ![Frame(t)] =
                                CallClosure(NoFrame, {start_state}, order)]
    /\ UNCHANGED <<pdaVars, obj, nfaVars, afdVars, callVars, closureVars>>

\* while stack: current_state = stack.pop()
run_pop(t) ==
    /\ evals[t].pc = "while"
    /\ ~LoopEnds(Locals(t).stack)
    /\ LET f == Locals(t)
           top == f.stack[Len(f.stack)]
       IN  Goes(t, "for", [f EXCEPT !.current_state = top,
                                    !.stack = SubSeq(f.stack, 1, Len(f.stack) - 1),
                                    !.iter = LambdaDests(transitions, top)])
    /\ UNCHANGED <<pdaVars, obj, nfaVars, afdVars, callVars, closureVars>>

\* one pass of "for next_state in self.transitions[(current_state, '')]"
run_for_next_state(t, next_state) ==
    /\ evals[t].pc = "for"
    /\ next_state \in Locals(t).iter
    /\ LET f == Locals(t)
       IN  IF Unvisited(next_state, f.closure)
           THEN Goes(t, "for", [f EXCEPT !.iter = @ \ {next_state},
                                         !.closure = @ \cup {next_state},
                                         !.stack = Push(@, next_state),
                                         !.states = Passed(@, next_state)])
           ELSE Goes(t, "for", [f EXCEPT !.iter = @ \ {next_state}])
    /\ UNCHANGED <<pdaVars, obj, nfaVars, afdVars, callVars, closureVars>>

\* the for loop over the destinations is exhausted
run_for_end(t) ==
    /\ evals[t].pc = "for"
    /\ Locals(t).iter = {}
    /\ Goes(t, "while", Locals(t))
    /\ UNCHANGED <<pdaVars, obj, nfaVars, afdVars, callVars, closureVars>>

\* return closure; current_states = the returned set; after a symbol the
\* test "if not current_states: break" follows
run_closure_return(t) ==
    /\ evals[t].pc = "while"
    /\ LoopEnds(Locals(t).stack)
    /\ LET f == Locals(t)
           g == [f EXCEPT !.current_states = f.closure, !.states = {}, !.closure = {},
                          !.stack = <<>>, !.current_state = None, !.iter = {}]
       IN  IF evals[t].caller = 77 /\ Dead(g.current_states)
           THEN Goes(t, "final", g)
           ELSE Goes(t, "loop", g)
    /\ UNCHANGED <<pdaVars, obj, nfaVars, afdVars, callVars, closureVars>>

\* for symbol in input_string: next_states = set()
run_for_symbol(t) ==
    /\ obj = "NFA"
    /\ evals[t].pc = "loop"
    /\ Locals(t).i < Len(evals[t].w)
    /\ LET f == Locals(t)
       IN  Goes(t, "states", [f EXCEPT !.i = @ + 1,
                                       !.symbol = evals[t].w[f.i + 1],
                                       !.next_states = {},
                                       !.pending = f.current_states])
    /\ UNCHANGED <<pdaVars, obj, nfaVars, afdVars, callVars, closureVars>>

\* one pass of "for state in current_states"
run_for_state(t, state) ==
    /\ evals[t].pc = "states"
    /\ state \in Locals(t).pending
    /\ LET f == Locals(t)
       IN  Goes(t, "states",
                [f EXCEPT !.pending = @ \ {state},
                          !.next_states = @ \cup Lookup(transitions, <<state, f.symbol>>)])
    /\ UNCHANGED <<pdaVars, obj, nfaVars, afdVars, callVars, closureVars>>

\* current_states = self._get_lambda_closure(next_states): the call
run_call_closure(t) ==
    /\ evals[t].pc = "states"
    /\ Locals(t).pending = {}
    /\ \E order \in Orders(Locals(t).next_states) :
          /\ evals' = [evals EXCEPT ![t].pc = "while", ![t].caller = 77]
          /\ frames' = [frames EXCEPT ![Frame(t)] =
                           CallClosure(Locals(t), Locals(t).next_states, order)]
    /\ UNCHANGED <<pdaVars, obj, nfaVars, afdVars, callVars, closureVars>>

\* input_string is exhausted
run_loop_end(t) ==
    /\ obj = "NFA"
    /\ evals[t].pc = "loop"
    /\ Locals(t).i >= Len(evals[t].w)
    /\ Goes(t, "final", Locals(t))
    /\ UNCHANGED <<pdaVars, obj, nfaVars, afdVars, callVars, closureVars>>

\* return bool(current_states & self.accept_states)
run_return(t) ==
    /\ evals[t].pc = "final"
    /\ evals' = [evals EXCEPT ![t].pc = "done",
                              ![t].result = Accepting(Locals(t).current_states, accept_states)]
    /\ frames' = [frames EXCEPT ![Frame(t)] = NoFrame]
    /\ UNCHANGED <<pdaVars, obj, nfaVars, afdVars, callVars, closureVars>>

\* simular(w) is called: estado_atual = self.estado_inicial
run_simular(t, w) ==
    /\ obj = "AFD"
    /\ evals[t].pc = "idle"
    /\ evals' = [evals EXCEPT ![t] = [pc |-> "loop", w |-> w, caller |-> 0, result |-> None]]
    /\ frames' = [frames EXCEPT ![Frame(t)] = [NoFrame EXCEPT !.estado_atual = estado_inicial]]
    /\ UNCHANGED <<pdaVars, obj, nfaVars, afdVars, callVars, closureVars>>

\* one pass of "for simbolo in cadeia", with its two return False
run_for_simbolo(t) ==
    /\ obj = "AFD"
    /\ evals[t].pc = "loop"
    /\ Locals(t).i < Len(evals[t].w)
    /\ LET f == Locals(t)
           simbolo == evals[t].w[f.i + 1]
           nxt == Get(transicoes, <<f.estado_atual, simbolo>>)
       IN  IF Foreign(alfabeto, simbolo)
           THEN /\ evals' = [evals EXCEPT ![t].pc = "done", ![t].result = FALSE]
                /\ frames' = [frames EXCEPT ![Frame(t)] = NoFrame]
           ELSE IF nxt = None
           THEN /\ evals' = [evals EXCEPT ![t].pc = "done", ![t].result = FALSE]
                /\ frames' = [frames EXCEPT ![Frame(t)] = NoFrame]
           ELSE Goes(t, "loop", [f EXCEPT !.i = @ + 1, !.symbol = simbolo,
                                          !.estado_atual = nxt])
    /\ UNCHANGED <<pdaVars, obj, nfaVars, afdVars, callVars, closureVars>>

\* cadeia is exhausted: return estado_atual in self.estados_finais
run_simular_return(t) ==
    /\ obj = "AFD"
    /\ evals[t].pc = "loop"
    /\ Locals(t).i >= Len(evals[t].w)
    /\ evals' = [evals EXCEPT ![t].pc = "done",
                              ![t].result = IsFinal(Locals(t).estado_atual, estados_finais)]
    /\ frames' = [frames EXCEPT ![Frame(t)] = NoFrame]
    /\ UNCHANGED <<pdaVars, obj, nfaVars, afdVars, callVars, closureVars>>

\* the state when the script has built its automaton
InitSteps ==
    /\ \/ /\ obj = "NFA"
          /\ states = ExampleNFA.states
          /\ alphabet = ExampleNFA.alphabet
          /\ transitions = ExampleNFA.transitions
          /\ start_state = ExampleNFA.start_state
          /\ accept_states = ExampleNFA.accept_states
          /\ estados = {}
          /\ alfabeto = {}
          /\ transicoes = EmptyTable
          /\ estado_inicial = None
          /\ estados_finais = {}
       \/ /\ obj = "AFD"
          /\ states = {}
          /\ alphabet = {}
          /\ transitions = EmptyTable
          /\ start_state = None
          /\ accept_states = {}
          /\ estados = ExampleAFD.estados
          /\ alfabeto = ExampleAFD.alfabeto
          /\ transicoes = ExampleAFD.transicoes
          /\ estado_inicial = ExampleAFD.estado_inicial
          /\ estados_finais = ExampleAFD.estados_finais
    /\ call = NoCall
    /\ ret = None
    /\ current_states = {}
    /\ estado_atual = None
    /\ consumed = 0
    /\ cpc = "idle"
    /\ arg = {}
    /\ closure = {}
    /\ stack = <<>>
    /\ current_state = None
    /\ iter = {}
    /\ pushes = [s \in States |-> 0]
    /\ prev = <<>>
    /\ evals = [t \in Threads |-> NoEval]
    /\ frames = [t \in Threads |-> NoFrame]
    /\ pda = NewPDA

NextSteps ==
    \E t \in Threads :
       \/ \E w \in Inputs : run_process_string(t, w)
       \/ run_pop(t)
       \/ \E n \in ExampleNFA.states : run_for_next_state(t, n)
       \/ run_for_end(t)
       \/ run_closure_return(t)
       \/ run_for_symbol(t)
       \/ \E s \in ExampleNFA.states : run_for_state(t, s)
       \/ run_call_closure(t)
       \/ run_loop_end(t)
       \/ run_return(t)
       \/ \E w \in AFDInputs : run_simular(t, w)
       \/ run_for_simbolo(t)
       \/ run_simular_return(t)

SpecSteps == InitSteps /\ [][NextSteps]_vars

----------------------------------------------------------------------------
(* What the claims speak of, stated without the code's algorithms          *)

\* the table holds the transition from_state --label--> to_state
HasEdge(tr, from_state, label, to_state) ==
    /\ <<from_state, label>> \in DOMAIN tr
    /\ to_state \in tr[<<from_state, label>>]

\* X is closed under lambda transitions
LambdaClosed(tr, X) ==
    \A s \in X : \A t \in States : HasEdge(tr, s, Eps, t) => t \in X

\* t is reached from s by zero or more lambda transitions: every
\* lambda-closed set that holds s holds t
LambdaReaches(tr, s, t) ==
    \A X \in SUBSET (States \cup {None}) : (s \in X /\ LambdaClosed(tr, X)) => t \in X

\* the call of _get_lambda_closure has returned
Returned == cpc = "done"

\* a second call has returned, after the first one returned prev[1].result
ReturnedTwice == cpc = "done" /\ prev # <<>>

\* process_string has returned, for an automaton whose start state is set
Evaluated == call.op = "process_string" /\ start_state # None

\* the sequence the returned call was given
Word == call.args[1]

\* a configuration is a state and the number of symbols read so far; one
\* move follows a lambda transition, or reads the next symbol of w
Moves(tr, w, c) ==
    {<<t, c[2]>> : t \in {x \in States : HasEdge(tr, c[1], Eps, x)}}
    \cup (IF c[2] < Len(w)
          THEN {<<t, c[2] + 1>> : t \in {x \in States : HasEdge(tr, c[1], w[c[2] + 1], x)}}
          ELSE {})

\* the configurations some path from a configuration of X leads to
RECURSIVE PathsFrom(_, _, _)
PathsFrom(tr, w, X) ==
    LET Y == X \cup UNION {Moves(tr, w, c) : c \in X}
    IN  IF Y = X THEN X ELSE PathsFrom(tr, w, Y)

\* some path from start to an accepting state spells exactly w
PathAccepts(tr, start, acc, w) ==
    \E q \in acc : <<q, Len(w)>> \in PathsFrom(tr, w, {<<start, 0>>})

\* the symbol loop of process_string with the break taken out
RECURSIVE NoBreakLoop(_, _, _, _)
NoBreakLoop(tr, cur, w, i) ==
    IF i > Len(w) THEN cur
    ELSE NoBreakLoop(tr, AfterSymbol(tr, cur, w[i]), w, i + 1)

\* the active set of the loop without break after j symbols of w
ActiveAfter(tr, start, w, j) ==
    NoBreakLoop(tr, InitialStates(tr, start), SubSeq(w, 1, j), 1)

----------------------------------------------------------------------------
(* C2: the set _get_lambda_closure(S) returns contains S, is closed under  *)
(* lambda transitions, and holds no state that is not reached from a       *)
(* member of S by zero or more lambda transitions.                         *)
C2_ClosureIsLeast ==
    Returned =>
        /\ arg \subseteq closure
        /\ LambdaClosed(transitions, closure)
        /\ \A t \in closure : \E s \in arg : LambdaReaches(transitions, s, t)

\* a call returned a state that is two lambda moves away from its argument
C2_Witness ==
    /\ Returned
    /\ \E t \in closure \ arg : \A s \in arg : ~HasEdge(transitions, s, Eps, t)

(* C3: the work-list loop of _get_lambda_closure terminates, lambda cycles *)
(* included, and no state is put on the work list more than once.          *)
C3_TerminatesPushOnce ==
    /\ [](\A s \in States : pushes[s] <= 1)
    /\ (cpc \in {"while", "for"}) ~> Returned

\* a call returned after walking round a lambda cycle of two states
C3_Witness ==
    /\ Returned
    /\ \E s, t \in closure :
          /\ s # t
          /\ HasEdge(transitions, s, Eps, t)
          /\ HasEdge(transitions, t, Eps, s)

(* C4: two calls of _get_lambda_closure with the same argument return the  *)
(* same set, whatever order each takes the states off the work list and    *)
(* enumerates the destinations in.                                         *)
C4_OrderIndependent ==
    (ReturnedTwice /\ arg = prev[1].arg) => closure = prev[1].result

\* both calls had a choice of order and found states beyond the argument
C4_Witness ==
    /\ ReturnedTwice
    /\ arg = prev[1].arg
    /\ Cardinality(arg) >= 2
    /\ closure # arg

(* C5: the closure of a closure is that closure: called with the set an    *)
(* earlier call returned, _get_lambda_closure returns that set.            *)
C5_Idempotent ==
    (ReturnedTwice /\ arg = prev[1].result) => closure = arg

\* the first call had enlarged its argument by a chain of lambda moves
C5_Witness ==
    /\ ReturnedTwice
    /\ arg = prev[1].result
    /\ Cardinality(prev[1].result \ prev[1].arg) >= 2

----------------------------------------------------------------------------
(* C1: with a start state set, process_string(w) returns True exactly when *)
(* some path from start_state to a state of accept_states spells w, lambda *)
(* transitions being free before, between and after the symbols.           *)
C1_AcceptsIffPath ==
    Evaluated =>
        (ret <=> PathAccepts(transitions, start_state, accept_states, Word))

\* a sequence was accepted though the start state itself cannot read its
\* first symbol: the accepting path begins with a lambda move
C1_Witness ==
    /\ Evaluated
    /\ ret = TRUE
    /\ Len(Word) >= 1
    /\ NextStates(transitions, {start_state}, Word[1]) = {}

(* C6: the start state, once set, the accepting states, and the source and *)
(* every destination of every stored transition are in states; every       *)
(* symbol of a key other than '' is in alphabet.                           *)
C6_WellFormed ==
    obj = "NFA" =>
        /\ start_state # None => start_state \in states
        /\ accept_states \subseteq states
        /\ \A key \in DOMAIN transitions :
              /\ key[1] \in states
              /\ transitions[key] \subseteq states
              /\ key[2] # Eps => key[2] \in alphabet

\* all three mutators have acted, with a lambda and a symbol transition
C6_Witness ==
    /\ start_state # None
    /\ accept_states # {}
    /\ \E k1, k2 \in DOMAIN transitions : k1[2] = Eps /\ k2[2] # Eps

(* C7: a key is present in the transition table exactly when at least one  *)
(* destination is stored under it: no key maps to the empty set.           *)
C7_NoEmptyEntry ==
    obj = "NFA" =>
        \A key \in States \X Labels :
            key \in DOMAIN transitions <=> \E t \in States : t \in Lookup(transitions, key)

\* a key was created by one add_transition and extended by another
C7_Witness ==
    \E key \in DOMAIN transitions : Cardinality(transitions[key]) >= 2

(* C8: calling set_start_state, add_accept_state or add_transition a       *)
(* second time with the same arguments leaves the automaton as the first   *)
(* call left it.                                                           *)
C8_Idempotent ==
    Building("NFA") =>
        /\ \A s \in StartArgs :
              LET first == SetStartState(Self, s) IN SetStartState(first, s) = first
        /\ \A s \in AcceptArgs :
              LET first == AddAcceptState(Self, s) IN AddAcceptState(first, s) = first
        /\ \A t \in Triples :
              LET first == AddTransition(Self, t[1], t[2], t[3])
              IN  AddTransition(first, t[1], t[2], t[3]) = first

\* an automaton each of the three mutators has been called on, one of
\* whose keys holds two destinations
C8_Witness ==
    /\ obj = "NFA"
    /\ start_state # None
    /\ accept_states # {}
    /\ \E key \in DOMAIN transitions : Cardinality(transitions[key]) >= 2

(* C9: process_string returns what its loop returns with the break taken   *)
(* out; once the active set is empty it is empty after every further       *)
(* symbol and the result is False.                                         *)
C9_BreakChangesNothing ==
    Evaluated =>
        /\ ret = Accepting(ActiveAfter(transitions, start_state, Word, Len(Word)),
                           accept_states)
        /\ current_states = {} =>
              /\ ret = FALSE
              /\ \A j \in consumed..Len(Word) :
                    ActiveAfter(transitions, start_state, Word, j) = {}

\* the loop was left with a symbol unread that the table has a transition for
C9_Witness ==
    /\ Evaluated
    /\ consumed < Len(Word)
    /\ \E s \in States : Lookup(transitions, <<s, Word[Len(Word)]>>) # {}

(* C10: for the empty sequence, process_string returns True exactly when   *)
(* the lambda closure of {start_state} holds an accepting state, and       *)
(* simular exactly when estado_inicial is in estados_finais.               *)
C10_EmptySequence ==
    /\ (call.op = "process_string" /\ Word = <<>>) =>
          (ret <=> \E q \in accept_states : LambdaReaches(transitions, start_state, q))
    /\ (call.op = "simular" /\ Word = <<>>) =>
          (ret <=> estado_inicial \in estados_finais)

\* the empty sequence was accepted by an NFA whose start state is not
\* accepting: an accepting state lies in its lambda closure
C10_Witness ==
    /\ call.op = "process_string"
    /\ Word = <<>>
    /\ ret = TRUE
    /\ start_state \notin accept_states

(* C11: on an NFA whose start state was never set, process_string returns  *)
(* False for every input sequence, whatever accepting states and           *)
(* transitions were added, and it does so before any closure is computed   *)
(* (no active set exists) and before any symbol is consumed.               *)
C11_NoStartRejects ==
    (call.op = "process_string" /\ start_state = None)
        => (ret = FALSE /\ current_states = {} /\ consumed = 0)

\* the call returned on an automaton that has accepting states and
\* transitions, lambda transitions among them, for a non-empty sequence
C11_Witness ==
    /\ call.op = "process_string"
    /\ start_state = None
    /\ accept_states # {}
    /\ \E k \in DOMAIN transitions : k[2] = Eps
    /\ \E k \in DOMAIN transitions : k[2] # Eps
    /\ Len(call.args[1]) = MaxLen
    /\ ret = FALSE

\* the walk of a deterministic automaton over the first j elements of w:
\* r[0] is the start state and every step follows a transition of the table
\* on a symbol of the alphabet
IsWalk(alf, trs, ini, w, j, r) ==
    /\ r[0] = ini
    /\ \A i \in 1..j :
          /\ w[i] \in alf
          /\ <<r[i - 1], w[i]>> \in DOMAIN trs
          /\ r[i] = trs[<<r[i - 1], w[i]>>]

Walks(j) == [0..j -> AFDStates \cup {None}]

\* the whole of w can be walked and the walk ends in a final state
WalkAccepts(alf, trs, ini, fin, w) ==
    \E r \in Walks(Len(w)) : IsWalk(alf, trs, ini, w, Len(w), r) /\ r[Len(w)] \in fin

\* the j-th element of w is the first one that cannot be walked: it is
\* outside the alphabet, or the state reached has no transition on it
Stuck(alf, trs, ini, w, j) ==
    \E r \in Walks(j - 1) :
       /\ IsWalk(alf, trs, ini, w, j - 1, r)
       /\ \/ w[j] \notin alf
          \/ <<r[j - 1], w[j]>> \notin DOMAIN trs

(* C12: simular(w) returns True exactly when every symbol of w is in       *)
(* alfabeto, a transition is defined at every step of the walk from        *)
(* estado_inicial, and the state after the last symbol is in               *)
(* estados_finais; at the first symbol that is outside alfabeto or has no  *)
(* transition it returns False without reading the remaining symbols, and  *)
(* a symbol outside alfabeto is rejected even if the table has a           *)
(* transition for it.                                                      *)
C12_SimularIffWalk ==
    call.op = "simular" =>
        /\ ret = WalkAccepts(alfabeto, transicoes, estado_inicial,
                             estados_finais, call.args[1])
        /\ \A j \in 1..Len(call.args[1]) :
              Stuck(alfabeto, transicoes, estado_inicial, call.args[1], j)
                  => (ret = FALSE /\ consumed = j)

\* rejected at the first of several symbols, which is outside alfabeto
\* although the table leads on it from the start state to a final state
C12_Witness ==
    /\ call.op = "simular"
    /\ Len(call.args[1]) = MaxLen
    /\ call.args[1][1] \notin alfabeto
    /\ <<estado_inicial, call.args[1][1]>> \in DOMAIN transicoes
    /\ transicoes[<<estado_inicial, call.args[1][1]>>] \in estados_finais
    /\ ret = FALSE
    /\ consumed = 1

\* what process_string(w) returns when it is the only evaluation running
Alone(w) ==
    IF start_state = None THEN FALSE
    ELSE Accepting(RunNFA(transitions, start_state, w).active, accept_states)

(* C14: when several process_string evaluations run at the same time on    *)
(* one NFA that is no longer mutated, their steps interleaved in any       *)
(* order, each returns what it returns when it runs alone; the active set, *)
(* next-state set and closure work list of a call are its own: a caller    *)
(* that is not inside a call finds its locals untouched by the others.     *)
C14_ConcurrentAsAlone ==
    \A t \in Threads :
       /\ (obj = "NFA" /\ evals[t].pc = "done") => evals[t].result = Alone(evals[t].w)
       /\ (obj = "NFA" /\ evals[t].pc \in {"idle", "done"}) => frames[t] = NoFrame

\* one evaluation has returned True while another one, given a different
\* sequence, is inside the closure call that follows its second symbol
C14_Witness ==
    /\ obj = "NFA"
    /\ \E t, u \in Threads :
          /\ evals[t].pc = "done"
          /\ evals[t].result = TRUE
          /\ evals[u].pc = "for"
          /\ evals[u].caller = 77
          /\ frames[u].i = 2
          /\ evals[u].w # evals[t].w

\* t is executing the statements of _get_lambda_closure
InClosure(t) == evals[t].pc \in {"while", "for"}

(* C13: evaluation never mutates the automaton: no statement of            *)
(* process_string, of _get_lambda_closure or of simular changes a field of *)
(* the NFA (states, alphabet, transitions with every destination set,      *)
(* start_state, accept_states) or of the AFD (estados, alfabeto,           *)
(* transicoes, estado_inicial, estados_finais), and the statements of      *)
(* _get_lambda_closure leave the set it was passed as it was.              *)
C13_EvaluationMutatesNothing ==
    [][/\ UNCHANGED <<nfaVars, afdVars>>
       /\ \A t \in Threads :
             (InClosure(t) /\ InClosure(t)') => frames'[t].states = frames[t].states]_vars

\* a closure call has added a state to its result that is not in the set it
\* was passed
C13_Witness ==
    \E t \in Threads :
       /\ InClosure(t)
       /\ frames[t].states # {}
       /\ frames[t].closure # frames[t].states
       /\ frames[t].states \subseteq frames[t].closure

\* the language aa|bb
AAorBB == {<<"a", "a">>, <<"b", "b">>}

(* C20: the example NFA of the source (start -eps-> path_a1, start -eps->  *)
(* path_b1, path_a1 -a-> path_a2 -a-> final, path_b1 -b-> path_b2 -b->     *)
(* final, final accepting) recognizes exactly aa|bb: process_string        *)
(* returns True for "aa" and "bb" and False for every other string over    *)
(* {a, b}, among them "ab", "" and "a".                                    *)
C20_ExampleRecognizesAAorBB ==
    \A t \in Threads :
       (obj = "NFA" /\ Self = ExampleNFA /\ evals[t].pc = "done")
           => (evals[t].result = (evals[t].w \in AAorBB))

\* one call has accepted "aa" and another has rejected "ab"
C20_Witness ==
    /\ obj = "NFA"
    /\ Self = ExampleNFA
    /\ \E t, u \in Threads :
          /\ evals[t].pc = "done" /\ evals[t].w = <<"a", "a">> /\ evals[t].result = TRUE
          /\ evals[u].pc = "done" /\ evals[u].w = <<"a", "b">> /\ evals[u].result = FALSE

\* the NFA after one add_transition call per entry of the table trs
RECURSIVE AddEntries(_, _, _)
AddEntries(n, trs, keys) ==
    IF keys = {} THEN n
    ELSE LET k == CHOOSE x \in keys : TRUE
         IN  AddEntries(AddTransition(n, k[1], k[2], trs[k]), trs, keys \ {k})

\* the NFA after one add_accept_state call per member of finals
RECURSIVE AddFinals(_, _)
AddFinals(n, finals) ==
    IF finals = {} THEN n
    ELSE LET q == CHOOSE x \in finals : TRUE
         IN  AddFinals(AddAcceptState(n, q), finals \ {q})

\* the NFA built with the start state, the accepting states and the table
\* entries of the AFD
AsNFA ==
    AddEntries(AddFinals(SetStartState(NewNFA, estado_inicial), estados_finais),
               transicoes, DOMAIN transicoes)

\* the AFD has a start state and every symbol of its table is in alfabeto
ProperAFD ==
    /\ obj = "AFD"
    /\ estado_inicial # None
    /\ \A k \in DOMAIN transicoes : k[2] \in alfabeto /\ k[2] # Eps

(* C15: a DFA is a special case of the NFA: for an AFD with a start state  *)
(* whose transition symbols are all in alfabeto, the NFA built with the    *)
(* same start state, the same accepting states and one add_transition per  *)
(* table entry (no lambda transition) returns the same boolean as simular  *)
(* for every input, and its active set never holds more than one state.    *)
C15_DFAIsSpecialCase ==
    (call.op = "simular" /\ ProperAFD) =>
        LET n == AsNFA
            w == call.args[1]
        IN  /\ ret = Accepting(RunNFA(n.transitions, n.start_state, w).active,
                               n.accept_states)
            /\ \A j \in 0..Len(w) :
                  Cardinality(RunNFA(n.transitions, n.start_state,
                                     SubSeq(w, 1, j)).active) <= 1

\* simular accepted a sequence of full length on a proper AFD with a full
\* table, walking through both states
C15_Witness ==
    /\ call.op = "simular"
    /\ ProperAFD
    /\ Cardinality(DOMAIN transicoes) = MaxAFDTrans
    /\ Len(call.args[1]) = MaxLen
    /\ ret = TRUE
    /\ estado_atual # estado_inicial

(* C16: the invariants of the data model hold for every AFD that can be    *)
(* constructed: estado_inicial is in estados, every member of              *)
(* estados_finais is in estados, every source and destination state of     *)
(* transicoes is in estados, and every symbol of a transition key is in    *)
(* alfabeto.                                                               *)
C16_AFDWellFormed ==
    obj = "AFD" =>
        /\ estado_inicial \in estados
        /\ estados_finais \subseteq estados
        /\ \A k \in DOMAIN transicoes :
              /\ k[1] \in estados
              /\ transicoes[k] \in estados
              /\ k[2] \in alfabeto

(* C17: building an AFD with a transition whose symbol is the empty string *)
(* or, more generally, is not in the alphabet is rejected: no AFD exists   *)
(* that stores such a transition.                                          *)
C17_BadSymbolRejected ==
    obj = "AFD" => \A k \in DOMAIN transicoes : k[2] # Eps /\ k[2] \in alfabeto

(* C18: for an AFD constructed with no start state (estado_inicial is      *)
(* None) simular returns False for every input sequence, the empty one     *)
(* included, whatever estados_finais and transicoes contain.               *)
C18_NoStartRejects ==
    (call.op = "simular" /\ estado_inicial = None) => ret = FALSE

(* C19: no NFA operation deletes anything: across every mutator call       *)
(* states, alphabet, accept_states, the set of transition keys and the     *)
(* destination set of every key are supersets of what they were; only      *)
(* start_state can be replaced, and a replaced start state stays a member  *)
(* of states (as the new one becomes one).                                 *)
C19_NothingDeleted ==
    [][(obj = "NFA" /\ obj' = "NFA") =>
          /\ states \subseteq states'
          /\ alphabet \subseteq alphabet'
          /\ accept_states \subseteq accept_states'
          /\ DOMAIN transitions \subseteq DOMAIN transitions'
          /\ \A k \in DOMAIN transitions : transitions[k] \subseteq transitions'[k]
          /\ start_state' # start_state =>
                /\ start_state' \in states'
                /\ start_state # None => start_state \in states']_vars

\* the start state was replaced: the former start state q0 is in states
\* although no other call has named it
C19_Witness ==
    /\ obj = "NFA"
    /\ start_state = "q1"
    /\ "q0" \in states
    /\ accept_states = {"q2"}
    /\ DOMAIN transitions = {<<"q1", Eps>>}
    /\ transitions[<<"q1", Eps>>] = {"q2"}

(* C21: the example DFA of the source (states q0 and q1, alphabet {0, 1},  *)
(* q0-0->q0, q0-1->q1, q1-0->q0, q1-1->q1, start q0, accepting q1)         *)
(* recognizes exactly the strings over {0, 1} that end with '1': simular   *)
(* returns True for each of them ("1", "101") and False for every string   *)
(* that ends with '0' and for the empty string.                            *)
C21_ExampleEndsWithOne ==
    \A t \in Threads :
       (obj = "AFD" /\ transicoes = ExampleAFD.transicoes /\ evals[t].pc = "done")
           => (evals[t].result =
                  (evals[t].w # <<>> /\ evals[t].w[Len(evals[t].w)] = "1"))

\* "101" was accepted, and another call rejected the empty string
C21_Witness ==
    /\ obj = "AFD"
    /\ \E t, u \in Threads :
          /\ evals[t].pc = "done" /\ evals[t].w = <<"1", "0", "1">>
          /\ evals[t].result = TRUE
          /\ evals[u].pc = "done" /\ evals[u].w = <<>> /\ evals[u].result = FALSE

\* some element of the sequence w is not a member of alph
HasForeign(alph, w) == \E i \in 1..Len(w) : w[i] \notin alph

(* C22: for every NFA built through the mutators and every input sequence, *)
(* if some element of the sequence is not a member of alphabet then        *)
(* process_string returns False; the empty string '' as an element of the  *)
(* sequence is such an element: it is never consumed along a lambda        *)
(* transition.                                                             *)
C22_ForeignElementRejected ==
    (call.op = "process_string" /\ HasForeign(alphabet, call.args[1])) => ret = FALSE

\* the same for sequences whose elements are all different from ''
C22_ForeignSymbolRejected ==
    (/\ call.op = "process_string"
     /\ HasForeign(alphabet, call.args[1])
     /\ \A i \in 1..Len(call.args[1]) : call.args[1][i] # Eps) => ret = FALSE

\* what C23 says of the transition table and of the final states and the
\* alphabets of p
PDATableWellFormed(p) ==
    /\ p.final_states \subseteq p.states
    /\ Eps \notin p.input_alphabet
    /\ \A key \in DOMAIN p.transitions :
          /\ key[1] \in p.states
          /\ \A pair \in p.transitions[key] : pair[1] \in p.states
          /\ key[3] \in p.stack_alphabet
          /\ key[2] # Eps => key[2] \in p.input_alphabet
          /\ p.transitions[key] # {}
    \* a pair added twice is stored once: adding a stored pair changes nothing
    /\ \A key \in DOMAIN p.transitions : \A pair \in p.transitions[key] :
          PDAAddTransition(p, key[1], key[2], key[3], pair[1], pair[2]) = p

(* C23 as stated: after any sequence of PDA set_start, add_final_state and *)
(* add_transition calls, start_state, every final state and the source and *)
(* destination state of every transition are in states; start_symbol and   *)
(* the stack-top symbol of every key are in stack_alphabet; every          *)
(* non-empty input symbol of a key is in input_alphabet and '' never is;   *)
(* every key maps to a non-empty set of pairs in which a pair added twice  *)
(* is stored once.  (Stated for a PDA on which at least one call was made.) *)
C23_PDAWellFormed ==
    (obj = "PDA" /\ pda # NewPDA) =>
        /\ pda.start_state \in pda.states
        /\ pda.start_symbol \in pda.stack_alphabet
        /\ PDATableWellFormed(pda)

(* C23, amended: the same, with start_state in states and start_symbol in  *)
(* stack_alphabet once set_start has been called (before that call both    *)
(* are None and belong to neither set).                                    *)
C23_PDAWellFormedOnceStarted ==
    obj = "PDA" =>
        /\ pda.start_state # None => pda.start_state \in pda.states
        /\ pda.start_symbol # None => pda.start_symbol \in pda.stack_alphabet
        /\ (pda.start_state = None) = (pda.start_symbol = None)
        /\ PDATableWellFormed(pda)

\* all three mutators have acted: the start state was replaced, a final
\* state was added, and one key holds two pairs while the only input symbol
\* added is ''
C23_Witness ==
    /\ obj = "PDA"
    /\ pda.start_state = "q1"
    /\ pda.start_symbol = "Z"
    /\ pda.final_states = {"q1"}
    /\ "q0" \in pda.states
    /\ \E key \in DOMAIN pda.transitions :
          key[2] = Eps /\ Cardinality(pda.transitions[key]) = 2

====
